---- MODULE Spec2Model ----
(***************************************************************************)
(* The chat session controller of the EconoGraph front-end:                *)
(* src/frontend/src/components/chat-interface.tsx, component ChatInterface.*)
(*                                                                         *)
(* The component keeps three React state cells (messages, input,           *)
(* isLoading).  Its handlers are closures created by a render: they read   *)
(* the values of input and isLoading that the render saw (`rendered`) and  *)
(* write the state cells through the setters.  handleSend is an async      *)
(* function: everything up to the await runs in the invoking handler, the  *)
(* rest (try / catch / finally) runs when the awaited promise settles.     *)
(* Each suspended handleSend is one entry of `calls`.                      *)
(*                                                                         *)
(* Every handler is written as a function from the state it runs in (and   *)
(* the render whose closure it is) to the state it leaves; the actions     *)
(* apply these functions.                                                  *)
(*                                                                         *)
(* Message.timestamp (a Date used only for display, line 155) is read by   *)
(* no handler and is left out of the Message records.                      *)
(***************************************************************************)
EXTENDS Integers, Sequences, FiniteSets, TLC

VARIABLES
    messages,   \* useState<Message[]>, line 20
    input,      \* useState(''), line 28
    isLoading,  \* useState(false), line 29
    rendered,   \* input / isLoading as seen by the closures of the last render
    calls,      \* handleSend invocations suspended at the await of line 72
    now,        \* the last reading of the clock (Date.now())
    uncaught    \* TRUE once a rejection has escaped the promise of handleSend

vars == <<messages, input, isLoading, rendered, calls, now, uncaught>>

(***************************************************************************)
(* Bounds of the model.                                                    *)
(***************************************************************************)
\* accepted submissions per behaviour
MaxSends == 2
\* the clock reading at mount (any time well after the epoch)
ClockStart == 10

\* milliseconds by which the clock may have advanced since its last reading
\* when handleSend reads it: the same millisecond or the next one
Ticks == { 0, 1 }

\* values of e.target.value delivered to onChange
TypedTexts == { "", " \n", " a " }

\* e.key of a key press (e.shiftKey is any boolean)
Keys == { "Enter", "a" }

(***************************************************************************)
(* Program constants.                                                      *)
(***************************************************************************)
\* setTimeout(resolve, 2000), line 72
TimerDelay == 2000

SeedGreeting ==
    [id |-> "1",
     content |-> "Hello! I'm EconoGraph, your Federal Reserve Economic Data assistant. I can help you understand economic trends, analyze FRED data, and answer questions about monetary policy. What would you like to explore today?",
     role |-> "assistant",
     error |-> FALSE]

ErrorNotice ==
    "I'm sorry, I encountered an error processing your request. Please try again or check if the backend service is running."

SampleQuestions ==
    { "What's the current unemployment rate trend?",
      "Explain inflation and interest rates relationship",
      "Show me recent GDP growth data" }

Texts == TypedTexts \cup SampleQuestions

\* The template literal of lines 76-84 (its bullet characters written as *).
DemoReply(text) ==
    "I received your question: \"" \o text
      \o "\". This is a demo response. In the full version, I would analyze FRED economic data and provide insights about your query using my knowledge of Federal Reserve data, economic indicators, and monetary policy."
      \o "\n\nHere are some key points I would typically cover:"
      \o "\n* Current economic indicators and trends"
      \o "\n* Historical data context and comparisons"
      \o "\n* Federal Reserve policy implications"
      \o "\n* Data visualization and charts"
      \o "\n\nWould you like me to elaborate on any specific aspect?"

(***************************************************************************)
(* String.prototype.trim and the guard of handleSend.                      *)
(***************************************************************************)
IsWhiteSpace(c) == c \in { " ", "\t", "\n", "\r", "\f" }

RECURSIVE TrimStart(_)
TrimStart(s) ==
    IF Len(s) > 0 /\ IsWhiteSpace(SubSeq(s, 1, 1))
    THEN TrimStart(SubSeq(s, 2, Len(s)))
    ELSE s

RECURSIVE TrimEnd(_)
TrimEnd(s) ==
    IF Len(s) > 0 /\ IsWhiteSpace(SubSeq(s, Len(s), Len(s)))
    THEN TrimEnd(SubSeq(s, 1, Len(s) - 1))
    ELSE s

Trim(s) == TrimEnd(TrimStart(s))

\* Faulty variants of the guard: one forgets isLoading, one forgets trim().
RejectsIgnoringLoading(text, loading) == Trim(text) = ""

RejectsEmptyOnly(text, loading) == text = "" \/ loading

\* !input.trim() || isLoading, line 46 (the early return)
Rejects(text, loading) == Trim(text) = "" \/ loading

Max(a, b) == IF a >= b THEN a ELSE b

(***************************************************************************)
(* The state as one record, and the render a closure belongs to.           *)
(***************************************************************************)
Cur ==
    [messages |-> messages, input |-> input, isLoading |-> isLoading,
     calls |-> calls, now |-> now, uncaught |-> uncaught]

RenderOf(s) == [input |-> s.input, isLoading |-> s.isLoading]

(***************************************************************************)
(* handleSend, lines 45-57: the part that runs before the await.           *)
(* r is the render whose closure runs, d the clock's advance.              *)
(***************************************************************************)
\* Faulty variant: the user message holds the trimmed text.
UserMessageTrimmed(t, text) ==
    [id |-> ToString(t), content |-> Trim(text), role |-> "user", error |-> FALSE]

UserMessage(t, text) ==
    [id |-> ToString(t), content |-> text, role |-> "user", error |-> FALSE]

\* Faulty variant: setMessages(prev => [userMessage, ...prev]), newest first.
handleSendPrepending(s, r, d) ==
    IF Rejects(r.input, r.isLoading)
    THEN s
    ELSE [s EXCEPT
            !.now = s.now + d,
            !.messages = << UserMessage(s.now + d, r.input) >> \o @,
            !.input = "",
            !.isLoading = TRUE,
            !.calls = Append(@, [input |-> r.input, startedAt |-> s.now + d])]

\* Faulty variant: setMessages([...messages, userMessage]) on a log that is reset
\* to the greeting instead of the functional update of line 55.
handleSendResettingLog(s, r, d) ==
    IF Rejects(r.input, r.isLoading)
    THEN s
    ELSE [s EXCEPT
            !.now = s.now + d,
            !.messages = << SeedGreeting, UserMessage(s.now + d, r.input) >>,
            !.input = "",
            !.isLoading = TRUE,
            !.calls = Append(@, [input |-> r.input, startedAt |-> s.now + d])]

handleSend(s, r, d) ==
    IF Rejects(r.input, r.isLoading)
    THEN s
    ELSE [s EXCEPT
            !.now = s.now + d,
            !.messages = Append(@, UserMessage(s.now + d, r.input)),
            !.input = "",
            !.isLoading = TRUE,
            !.calls = Append(@, [input |-> r.input, startedAt |-> s.now + d])]

(***************************************************************************)
(* handleKeyPress, lines 105-110.                                          *)
(***************************************************************************)
\* Faulty variant: the shiftKey test is missing.
handleKeyPressIgnoringShift(s, r, key, shiftKey, d) ==
    IF key = "Enter"
    THEN handleSend(s, r, d)
    ELSE s

\* Faulty variant: any other key abandons the calls in flight.
handleKeyPressCancelling(s, r, key, shiftKey, d) ==
    IF key = "Enter" /\ ~shiftKey
    THEN handleSend(s, r, d)
    ELSE [s EXCEPT !.isLoading = FALSE, !.calls = << >>]

handleKeyPress(s, r, key, shiftKey, d) ==
    IF key = "Enter" /\ ~shiftKey
    THEN handleSend(s, r, d)
    ELSE s

(***************************************************************************)
(* onChange of the Textarea, line 193, and handleSampleQuestion, 112-114.  *)
(***************************************************************************)
\* Faulty variant: setInput(e.target.value.trim()).
onChangeTrimming(s, value) == [s EXCEPT !.input = Trim(value)]

onChange(s, value) == [s EXCEPT !.input = value]

\* Faulty variant: picking a sample question also submits it.
handleSampleQuestionSubmitting(s, question) ==
    handleSend([s EXCEPT !.input = question],
               [input |-> question, isLoading |-> s.isLoading], 0)

handleSampleQuestion(s, question) == [s EXCEPT !.input = question]

(***************************************************************************)
(* handleSend, lines 72-102: the continuation after the await, for the     *)
(* oldest suspended call (timers of equal delay fire in the order they     *)
(* were set).  The awaited promise stands for the call to the backend      *)
(* (line 60): it resolves no earlier than its timer, or it rejects.        *)
(* The continuation reads the clock at the earliest time it can run; a     *)
(* later reading only shifts the ids created from then on.                 *)
(***************************************************************************)
AssistantMessage(t, text) ==
    [id |-> ToString(t + 1), content |-> DemoReply(text), role |-> "assistant",
     error |-> FALSE]

ErrorMessage(t) ==
    [id |-> ToString(t + 1), content |-> ErrorNotice, role |-> "assistant",
     error |-> TRUE]

\* the clock when the timer of the oldest call fires
FiredAt(s) == Max(s.now, Head(s.calls).startedAt + TimerDelay)

\* Faulty variant: the finally block is missing, isLoading stays true.
handleSendResolvedNoFinally(s) ==
    [s EXCEPT
        !.now = FiredAt(s),
        !.messages = Append(@, AssistantMessage(FiredAt(s), Head(s.calls).input)),
        !.calls = Tail(@)]

\* Faulty variant: the reply is flagged as an error.
handleSendResolvedAsError(s) ==
    [s EXCEPT
        !.now = FiredAt(s),
        !.messages = Append(@, [AssistantMessage(FiredAt(s), Head(s.calls).input)
                                  EXCEPT !.error = TRUE]),
        !.isLoading = FALSE,
        !.calls = Tail(@)]

\* Faulty variant: the reply quotes the input of the current state instead of
\* the one captured when handleSend was invoked.
handleSendResolvedWithCurrentInput(s) ==
    [s EXCEPT
        !.now = FiredAt(s),
        !.messages = Append(@, AssistantMessage(FiredAt(s), s.input)),
        !.isLoading = FALSE,
        !.calls = Tail(@)]

\* the rest of the try block (74-89), then finally (100-102)
handleSendResolved(s) ==
    [s EXCEPT
        !.now = FiredAt(s),
        !.messages = Append(@, AssistantMessage(FiredAt(s), Head(s.calls).input)),
        !.isLoading = FALSE,
        !.calls = Tail(@)]

\* Faulty variant: no catch block, the rejection escapes handleSend.
handleSendRejectedNoCatch(s) ==
    [s EXCEPT
        !.isLoading = FALSE,
        !.uncaught = TRUE,
        !.calls = Tail(@)]

\* Faulty variant: the catch block swallows the rejection without a notice.
handleSendRejectedSilently(s) ==
    [s EXCEPT
        !.isLoading = FALSE,
        !.calls = Tail(@)]

\* Faulty variant: the finally block is missing after a rejection.
handleSendRejectedNoFinally(s) ==
    [s EXCEPT
        !.messages = Append(@, ErrorMessage(s.now)),
        !.calls = Tail(@)]

\* catch (90-99), then finally (100-102)
handleSendRejected(s) ==
    [s EXCEPT
        !.messages = Append(@, ErrorMessage(s.now)),
        !.isLoading = FALSE,
        !.calls = Tail(@)]

(***************************************************************************)
(* Initial state: the state after the first render.                        *)
(***************************************************************************)
Init ==
    /\ messages = << SeedGreeting >>
    /\ input = ""
    /\ isLoading = FALSE
    /\ rendered = [input |-> "", isLoading |-> FALSE]
    /\ calls = << >>
    /\ now = ClockStart
    /\ uncaught = FALSE

(***************************************************************************)
(* React re-renders the component after state updates; the closures of the *)
(* new render see the new state.  commit = TRUE: the re-render has         *)
(* happened before the next handler runs.  commit = FALSE: it is left to   *)
(* the Render step.                                                        *)
(***************************************************************************)
Becomes(n, commit) ==
    /\ messages' = n.messages
    /\ input' = n.input
    /\ isLoading' = n.isLoading
    /\ calls' = n.calls
    /\ now' = n.now
    /\ uncaught' = n.uncaught
    /\ rendered' = IF commit THEN RenderOf(n) ELSE rendered

Render ==
    /\ rendered # RenderOf(Cur)
    /\ rendered' = RenderOf(Cur)
    /\ UNCHANGED <<messages, input, isLoading, calls, now, uncaught>>

Sends == Cardinality({ i \in 1..Len(messages) : messages[i].role = "user" })

\* an accepted submission is taken only while the model's bound allows it
WithinBound(n) == n.messages # messages => Sends < MaxSends

OnChange(value, commit) ==
    /\ value \in Texts
    /\ Becomes(onChange(Cur, value), commit)

HandleSampleQuestion(question, commit) ==
    /\ question \in SampleQuestions
    /\ Becomes(handleSampleQuestion(Cur, question), commit)

HandleSend(commit) ==
    \E d \in Ticks :
        /\ WithinBound(handleSend(Cur, rendered, d))
        /\ Becomes(handleSend(Cur, rendered, d), commit)

HandleKeyPress(key, shiftKey, commit) ==
    \E d \in Ticks :
        /\ WithinBound(handleKeyPress(Cur, rendered, key, shiftKey, d))
        /\ Becomes(handleKeyPress(Cur, rendered, key, shiftKey, d), commit)

Resolve(commit) ==
    /\ calls # << >>
    /\ Becomes(handleSendResolved(Cur), commit)

Fail(commit) ==
    /\ calls # << >>
    /\ Becomes(handleSendRejected(Cur), commit)

(***************************************************************************)
(* Spec: one handler per browser event; React has re-rendered before the   *)
(* next handler runs.                                                      *)
(***************************************************************************)
Next ==
    \/ \E value \in Texts : OnChange(value, TRUE)
    \/ \E q \in SampleQuestions : HandleSampleQuestion(q, TRUE)
    \/ HandleSend(TRUE)
    \/ \E key \in Keys, shiftKey \in BOOLEAN : HandleKeyPress(key, shiftKey, TRUE)
    \/ Resolve(TRUE)
    \/ Fail(TRUE)

Spec == Init /\ [][Next]_vars

\* SpecFair: the awaited promise of every suspended call settles
SpecFair == Spec /\ WF_vars(Resolve(TRUE) \/ Fail(TRUE))

(***************************************************************************)
(* SpecBatched: several handler invocations may run before React           *)
(* re-renders (state updates are batched; the closures stay those of the   *)
(* last render until Render).                                              *)
(***************************************************************************)
NextBatched ==
    \/ \E value \in Texts : OnChange(value, FALSE)
    \/ \E q \in SampleQuestions : HandleSampleQuestion(q, FALSE)
    \/ HandleSend(FALSE)
    \/ \E key \in Keys, shiftKey \in BOOLEAN : HandleKeyPress(key, shiftKey, FALSE)
    \/ Resolve(FALSE)
    \/ Fail(FALSE)
    \/ Render

SpecBatched == Init /\ [][NextBatched]_vars

(***************************************************************************)
(* The disabled props of the rendered controls: Textarea (line 197), send  *)
(* Button (line 202), sample question Buttons (line 228).                  *)
(***************************************************************************)
TextareaDisabled(r) == r.isLoading

\* Faulty variant: disabled={!input || isLoading}, without trim().
SendDisabledWithoutTrim(r) == r.input = "" \/ r.isLoading

SendDisabled(r) == Trim(r.input) = "" \/ r.isLoading

SampleDisabled(r) == r.isLoading

(***************************************************************************)
(* SpecUI: the handlers as the rendered controls invoke them.  A disabled  *)
(* control delivers no event.                                              *)
(***************************************************************************)
TextareaChange(value) ==
    /\ ~TextareaDisabled(rendered)
    /\ OnChange(value, TRUE)

TextareaKeyPress(key, shiftKey) ==
    /\ ~TextareaDisabled(rendered)
    /\ HandleKeyPress(key, shiftKey, TRUE)

SendClick ==
    /\ ~SendDisabled(rendered)
    /\ HandleSend(TRUE)

SampleClick(question) ==
    /\ ~SampleDisabled(rendered)
    /\ HandleSampleQuestion(question, TRUE)

NextUI ==
    \/ \E value \in Texts : TextareaChange(value)
    \/ \E q \in SampleQuestions : SampleClick(q)
    \/ SendClick
    \/ \E key \in Keys, shiftKey \in BOOLEAN : TextareaKeyPress(key, shiftKey)
    \/ Resolve(TRUE)
    \/ Fail(TRUE)

SpecUI == Init /\ [][NextUI]_vars

(***************************************************************************)
(* Properties.                                                             *)
(***************************************************************************)
Last(seq) == seq[Len(seq)]

Extends(longer, shorter) ==
    /\ Len(longer) >= Len(shorter)
    /\ SubSeq(longer, 1, Len(shorter)) = shorter

AppendsOne(n) ==
    /\ Len(n.messages) = Len(messages) + 1
    /\ Extends(n.messages, messages)

\* C1: at most one remote call is outstanding at a time, also when handleSend
\* is invoked twice before the component has re-rendered.
C1_AtMostOneCall == Len(calls) <= 1

C3_AcceptedSubmit ==
    \A d \in Ticks :
        (~isLoading /\ Trim(input) # "") =>
            LET n == handleSend(Cur, rendered, d) IN
                /\ AppendsOne(n)
                /\ Last(n.messages).role = "user"
                /\ Last(n.messages).content = input
                /\ Last(n.messages).error = FALSE
                /\ n.input = ""
                /\ n.isLoading = TRUE
                /\ Len(n.calls) = Len(calls) + 1
                /\ Extends(n.calls, calls)
                /\ Last(n.calls).input = input

C3_Witness ==
    /\ Len(messages) = 2
    /\ messages[2].role = "user"
    /\ messages[2].content = " a "
    /\ input = ""
    /\ isLoading
    /\ Len(calls) = 1
    /\ calls[1].input = " a "

\* C4: handleSend invoked with an empty or whitespace-only input changes
\* nothing (the blank input stays), and handleSend changes the input only
\* when it accepts the submission.
C4_BlankSubmitRejected ==
    \A d \in Ticks :
        LET n == handleSend(Cur, rendered, d) IN
            /\ Trim(input) = "" => n = Cur
            /\ n.input # input =>
                  /\ n.input = ""
                  /\ AppendsOne(n)
                  /\ Len(n.calls) = Len(calls) + 1

C4_Witness ==
    /\ input = " \n"
    /\ ~isLoading
    /\ Len(messages) = 3

\* C5: when the awaited call resolves, the log grows by exactly one entry,
\* an assistant message that is no error and holds the reply, isLoading
\* becomes false, and the earlier entries and the input are unchanged.
C5_ResolveAppendsReply ==
    calls # << >> =>
        LET n == handleSendResolved(Cur) IN
            /\ AppendsOne(n)
            /\ Last(n.messages).role = "assistant"
            /\ Last(n.messages).error = FALSE
            /\ Last(n.messages).content = DemoReply(Head(calls).input)
            /\ n.isLoading = FALSE
            /\ n.input = input

C5_Witness ==
    /\ Len(messages) = 3
    /\ messages[3].role = "assistant"
    /\ messages[3].error = FALSE
    /\ messages[3].content = DemoReply(messages[2].content)
    /\ ~isLoading

\* C6: when the awaited call rejects, the rejection is caught: the log grows
\* by exactly one entry, an assistant message flagged as an error that holds
\* the fixed notice, isLoading becomes false and nothing escapes handleSend.
C6_FailureAppendsNotice ==
    calls # << >> =>
        LET n == handleSendRejected(Cur) IN
            /\ AppendsOne(n)
            /\ Last(n.messages).role = "assistant"
            /\ Last(n.messages).error = TRUE
            /\ Last(n.messages).content = ErrorNotice
            /\ n.isLoading = FALSE
            /\ n.uncaught = FALSE
            /\ uncaught = FALSE

C6_Witness ==
    /\ Len(messages) = 3
    /\ messages[3].role = "assistant"
    /\ messages[3].error = TRUE
    /\ messages[3].content = ErrorNotice
    /\ ~isLoading
    /\ ~uncaught

C8_UniqueIds ==
    \A i, j \in 1..Len(messages) : i # j => messages[i].id # messages[j].id

C10_AppendOnly == [][Extends(messages', messages)]_vars

C10_Witness ==
    /\ Len(messages) = 5
    /\ messages[1] = SeedGreeting
    /\ messages[3].error
    /\ ~messages[5].error

\* C11: a fresh session is idle with the greeting as its only message, an
\* empty input and isLoading false; and in every state the log is not empty
\* and its first entry is that greeting, an assistant message and no error.
C11_SeedGreeting ==
    /\ Len(messages) = 1
    /\ input = ""
    /\ ~isLoading
    /\ calls = << >>
    /\ [](/\ Len(messages) >= 1
          /\ messages[1].id = "1"
          /\ messages[1].role = "assistant"
          /\ messages[1].error = FALSE
          /\ messages[1].content = SeedGreeting.content)

C11_Witness ==
    /\ Len(messages) = 5
    /\ messages[1] = SeedGreeting
    /\ messages[2].role = "user"
    /\ ~isLoading
    /\ input = " \n"

\* what onChange does with a value, in the current state
SetInputOnly(value) ==
    LET n == onChange(Cur, value) IN
        /\ n.input = value
        /\ n.messages = messages
        /\ n.isLoading = isLoading
        /\ n.calls = calls

C13_SampleQuestionSetsInputOnly ==
    \A q \in SampleQuestions :
        LET n == handleSampleQuestion(Cur, q) IN
            /\ n.input = q
            /\ n.messages = messages
            /\ n.calls = calls
            /\ n.isLoading = isLoading
            /\ n = onChange(Cur, q)

C13_Witness ==
    /\ input = "Show me recent GDP growth data"
    /\ Len(messages) = 1
    /\ ~isLoading
    /\ calls = << >>

\* a submission of text t typed into state n is accepted
AcceptsAfterTyping(n, t) ==
    \A d \in Ticks :
        LET m == onChange(n, t)
            k == handleSend(m, RenderOf(m), d)
        IN  /\ Len(k.messages) = Len(n.messages) + 1
            /\ Last(k.messages).role = "user"
            /\ Last(k.messages).content = t
            /\ k.isLoading
            /\ Len(k.calls) = Len(n.calls) + 1

UsableAgain(n) ==
    /\ ~n.isLoading
    /\ n.calls = << >>
    /\ \A t \in Texts : Trim(t) # "" => AcceptsAfterTyping(n, t)

\* C14: the session stays usable: once the outstanding call has failed (or
\* resolved) the controller is idle and a submission of a non-blank input is
\* accepted and starts a new call; an idle state accepts one as well.
C14_UsableAfterFailure ==
    /\ calls # << >> =>
          /\ UsableAgain(handleSendRejected(Cur))
          /\ UsableAgain(handleSendResolved(Cur))
    /\ ~isLoading => UsableAgain(Cur)

C14_Witness ==
    /\ Len(messages) = 4
    /\ messages[3].error
    /\ messages[4].role = "user"
    /\ isLoading
    /\ Len(calls) = 1

\* what a user action leaves of an outstanding call
KeepsAwaiting(n) == n.isLoading /\ n.calls = calls /\ n.messages = messages

\* C15: there is no cancellation: while isLoading is true no text edit,
\* sample question, submit or key press resets it or drops the call in
\* flight, and isLoading becomes false only in the step in which the call
\* settles and its assistant message is appended.
C15_NoCancellation ==
    /\ [](isLoading =>
            /\ \A value \in Texts : KeepsAwaiting(onChange(Cur, value))
            /\ \A q \in SampleQuestions : KeepsAwaiting(handleSampleQuestion(Cur, q))
            /\ \A d \in Ticks : KeepsAwaiting(handleSend(Cur, rendered, d))
            /\ \A key \in Keys, shiftKey \in BOOLEAN, d \in Ticks :
                  KeepsAwaiting(handleKeyPress(Cur, rendered, key, shiftKey, d)))
    /\ [][(isLoading /\ ~isLoading') =>
            /\ calls # << >>
            /\ calls' = Tail(calls)
            /\ Len(messages') = Len(messages) + 1
            /\ Last(messages').role = "assistant"]_vars

C15_Witness ==
    /\ isLoading
    /\ Len(calls) = 1
    /\ input = "Explain inflation and interest rates relationship"
    /\ calls[1].input = " a "

\* C16: a key press submits exactly when the key is Enter and Shift is not
\* held: then it does what handleSend does; with Shift, or for any other
\* key, messages, input and isLoading stay as they are.
C16_EnterWithoutShiftSubmits ==
    \A key \in Keys, shiftKey \in BOOLEAN, d \in Ticks :
        LET n == handleKeyPress(Cur, rendered, key, shiftKey, d) IN
            IF key = "Enter" /\ shiftKey = FALSE
            THEN /\ n.messages = handleSend(Cur, rendered, d).messages
                 /\ n.input = handleSend(Cur, rendered, d).input
                 /\ n.isLoading = handleSend(Cur, rendered, d).isLoading
                 /\ (~isLoading /\ Trim(input) # "") =>
                        Len(n.messages) = Len(messages) + 1
            ELSE /\ n.messages = messages
                 /\ n.input = input
                 /\ n.isLoading = isLoading

C16_Witness ==
    /\ Len(messages) = 2
    /\ messages[2].content = "Explain inflation and interest rates relationship"
    /\ isLoading
    /\ input = ""

C18_ReplyQuotesSubmittedText ==
    /\ \A i \in 2..Len(messages) :
          (messages[i].role = "assistant" /\ ~messages[i].error) =>
              /\ messages[i - 1].role = "user"
              /\ messages[i].content = DemoReply(messages[i - 1].content)
    /\ calls # << >> =>
          Last(handleSendResolved(Cur).messages).content
              = DemoReply(Last(messages).content)

C18_Witness ==
    /\ Len(messages) = 3
    /\ messages[2].content = "Show me recent GDP growth data"
    /\ messages[3].content = DemoReply("Show me recent GDP growth data")
    /\ input = " a "

\* C19: the send button is enabled exactly when handleSend would accept the
\* submission (input not blank, isLoading false); while isLoading is true the
\* text area and the sample question buttons are disabled, so through the
\* rendered controls the input does not change during an outstanding call.
C19_EnablementAgreesWithGuard ==
    /\ [](/\ ~SendDisabled(rendered) <=> (Trim(input) # "" /\ ~isLoading)
          /\ ~SendDisabled(rendered) <=>
                \A d \in Ticks :
                    Len(handleSend(Cur, rendered, d).messages) = Len(messages) + 1
          /\ isLoading => (TextareaDisabled(rendered) /\ SampleDisabled(rendered)))
    /\ [][isLoading => input' = input]_vars

C19_Witness ==
    /\ isLoading
    /\ SendDisabled(rendered)
    /\ TextareaDisabled(rendered)
    /\ SampleDisabled(rendered)
    /\ Len(messages) = 4
    /\ input = ""

====
